---------------------------- MODULE Spec2Model ----------------------------
(***************************************************************************)
(* Model of src/app.py: the template substitution engine of the "Easy Word *)
(* Document Maker".  Text is a sequence of one-character strings, a run is *)
(* a record [text, fmt] (fmt stands for the run's formatting identity), a  *)
(* paragraph is a sequence of runs.                                        *)
(***************************************************************************)
EXTENDS Integers, Sequences, FiniteSets, TLC

VARIABLES
    pc,            \* position of the modelled script / call
    para,          \* SpecSplice: the paragraph's runs (after the call once pc = "done")
    para0,         \* SpecSplice: the paragraph's runs as they were before the call
    old_text,      \* SpecSplice: argument old_text of the call
    new_text,      \* SpecSplice: argument new_text of the call
    text,          \* SpecNorm: argument of normalize_text
    once,          \* SpecNorm: normalize_text(text)
    twice,         \* SpecNorm: normalize_text(normalize_text(text))
    template,      \* the uploaded Word template (a document tree)
    rows,          \* the rows of the uploaded table (df), each column -> cell value
    placeholders,  \* main: placeholders = extract_placeholders(doc)
    mapping,       \* main: the dict placeholder -> column, in its iteration order
    documents,     \* main: the list generate_documents returned
    previous,      \* the list an earlier run of the script returned on the same inputs
    restarted      \* whether the script has been run again

pureVars == <<para, para0, old_text, new_text, text, once, twice>>

mainVars == <<template, rows, placeholders, mapping, documents, previous, restarted>>

vars == <<pc, para, para0, old_text, new_text, text, once, twice,
          template, rows, placeholders, mapping, documents, previous, restarted>>

----------------------------------------------------------------------------
(* Bounds of the model.                                                    *)

MaxLen == 4

MaxSpans == 3

MaxNormLen == 3

MaxRows == 2

----------------------------------------------------------------------------
(* Characters and text.                                                    *)

OPEN == "{"

CLOSE == "}"

\* "I_DOT" stands for U+0130 (capital I with dot above), "COMB_DOT" for
\* U+0307 (combining dot above).
NormAlphabet == {"a", "A", "1", "_", "I_DOT", "COMB_DOT"}

\* str.isalnum() of one character.
IsAlnum(c) == c \notin {"_", " ", OPEN, CLOSE, "COMB_DOT"}

\* str.lower() of one character: Unicode full case mapping; U+0130 lowers
\* to the two characters "i" U+0307.
Lower(c) ==
    CASE c = "A" -> <<"a">>
      [] c = "I_DOT" -> <<"i", "COMB_DOT">>
      [] OTHER -> <<c>>

RECURSIVE FilterAlnum(_)
FilterAlnum(s) ==
    IF s = <<>> THEN <<>>
    ELSE (IF IsAlnum(Head(s)) THEN <<Head(s)>> ELSE <<>>) \o FilterAlnum(Tail(s))

RECURSIVE LowerText(_)
LowerText(s) ==
    IF s = <<>> THEN <<>> ELSE Lower(Head(s)) \o LowerText(Tail(s))

\* ''.join(char for char in text if char.isalnum()).lower()
normalize_text(s) == LowerText(FilterAlnum(s))

\* All texts over alphabet A of length at most n.
TextsUpTo(A, n) == UNION {[1..k -> A] : k \in 0..n}

\* s[:k] and s[k:] of Python, k a 0-based offset.
Prefix(s, k) == SubSeq(s, 1, k)

Suffix(s, k) == SubSeq(s, k + 1, Len(s))

\* Whether sub occurs in s at 0-based offset k.
OccursAt(sub, s, k) ==
    /\ k >= 0
    /\ k + Len(sub) <= Len(s)
    /\ SubSeq(s, k + 1, k + Len(sub)) = sub

\* old_text in full_text
Contains(sub, s) == \E k \in 0..Len(s) : OccursAt(sub, s, k)

\* full_text.find(old_text): the lowest offset, -1 when absent.
Find(sub, s) ==
    IF Contains(sub, s)
    THEN CHOOSE k \in 0..Len(s) :
            /\ OccursAt(sub, s, k)
            /\ \A j \in 0..(k - 1) : ~OccursAt(sub, s, j)
    ELSE -1

Max(a, b) == IF a > b THEN a ELSE b

Min(a, b) == IF a < b THEN a ELSE b

----------------------------------------------------------------------------
(* Runs and paragraphs.                                                    *)

\* ''.join(run.text for run in runs)
RECURSIVE get_full_text(_)
get_full_text(runs) ==
    IF runs = <<>> THEN <<>>
    ELSE Head(runs).text \o get_full_text(Tail(runs))

\* current_pos when the loop of replace_text_in_paragraph reaches run i:
\* the summed lengths of the runs before it, each measured before that run
\* was rewritten.
RECURSIVE RunStart(_, _)
RunStart(runs, i) ==
    IF i <= 1 THEN 0 ELSE RunStart(runs, i - 1) + Len(runs[i - 1].text)

\* A plausible slip: the run holding the start of the match takes the new
\* text, the later runs of the match keep theirs.
replace_text_in_paragraph_first_run_only(paragraph, old, new) ==
    LET full_text == get_full_text(paragraph)
        start_pos == Find(old, full_text)
        end_pos   == start_pos + Len(old)
    IN  IF ~Contains(old, full_text) THEN paragraph
        ELSE [i \in 1..Len(paragraph) |->
                LET run == paragraph[i]
                    run_start == RunStart(paragraph, i)
                    run_end   == run_start + Len(run.text)
                IN  IF run_start <= start_pos /\ start_pos < run_end
                    THEN [run EXCEPT !.text =
                            Prefix(run.text, start_pos - run_start) \o new
                              \o Suffix(run.text, Min(run_end, end_pos) - run_start)]
                    ELSE run]

\* replace_text_in_paragraph(paragraph, old_text, new_text): the runs after
\* the call.
replace_text_in_paragraph(paragraph, old, new) ==
    LET full_text == get_full_text(paragraph)
        start_pos == Find(old, full_text)
        end_pos   == start_pos + Len(old)
    IN  IF ~Contains(old, full_text) THEN paragraph
        ELSE [i \in 1..Len(paragraph) |->
                LET run == paragraph[i]
                    run_start == RunStart(paragraph, i)
                    run_end   == run_start + Len(run.text)
                IN  IF run_start < end_pos /\ run_end > start_pos
                    THEN LET overlap_start == Max(run_start, start_pos)
                             overlap_end   == Min(run_end, end_pos)
                             keep_before ==
                                IF overlap_start > run_start
                                THEN Prefix(run.text, overlap_start - run_start)
                                ELSE <<>>
                             keep_after ==
                                IF overlap_end < run_end
                                THEN Suffix(run.text, overlap_end - run_start)
                                ELSE <<>>
                         IN  IF run_start <= start_pos /\ start_pos < run_end
                             THEN [run EXCEPT !.text = keep_before \o new \o keep_after]
                             ELSE [run EXCEPT !.text = keep_before \o keep_after]
                    ELSE run]

\* Every division of text t into exactly k runs (empty runs included), the
\* runs numbered by their formatting identity.
SplitsInto(t, k) ==
    {[i \in 1..k |->
        [text |-> SubSeq(t, (IF i = 1 THEN 0 ELSE c[i - 1]) + 1,
                            IF i = k THEN Len(t) ELSE c[i]),
         fmt  |-> i]] :
     c \in {d \in [1..(k - 1) -> 0..Len(t)] :
                \A i \in 1..(k - 2) : d[i] <= d[i + 1]}}

Splits(t, maxRuns) == UNION {SplitsInto(t, k) : k \in 1..maxRuns}

----------------------------------------------------------------------------
(* Documents.  A document is [paragraphs, tables, sections]: its top-level  *)
(* body paragraphs, its top-level tables and its sections.  A table is a    *)
(* sequence of rows, a row a sequence of cells, a cell [paragraphs, tables] *)
(* (the tables nested in the cell), a section [header, footer], each the    *)
(* sequence of that part's paragraphs.                                      *)

Range(f) == {f[i] : i \in DOMAIN f}

RECURSIVE Flatten(_)
Flatten(ss) == IF ss = <<>> THEN <<>> ELSE Head(ss) \o Flatten(Tail(ss))

\* "{{" + placeholder + "}}"  (f"{{{{{placeholder}}}}}")
placeholder_text(placeholder) == <<OPEN, OPEN>> \o placeholder \o <<CLOSE, CLOSE>>

\* pattern.findall(full_text) for r'\{\{(.+?)\}\}', scanning from 1-based
\* index i: the leftmost match opens at the first "{{" that is followed,
\* after at least one character, by "}}"; the capture ends at the first
\* such "}}"; the scan resumes after the match.  (No text of the model
\* holds a line break, the one character "." does not match.)
RECURSIVE FindallFrom(_, _)
FindallFrom(t, i) ==
    IF i > Len(t) THEN {}
    ELSE LET closes == {j \in (i + 3)..(Len(t) - 1) : t[j] = CLOSE /\ t[j + 1] = CLOSE}
         IN  IF /\ i + 1 <= Len(t)
                /\ t[i] = OPEN
                /\ t[i + 1] = OPEN
                /\ closes # {}
             THEN LET j == CHOOSE c \in closes : \A d \in closes : c <= d
                  IN  {SubSeq(t, i + 2, j - 1)} \cup FindallFrom(t, j + 2)
             ELSE FindallFrom(t, i + 1)

placeholder_findall(t) == FindallFrom(t, 1)

\* pattern.findall(text) for r'(?<!\{)\{[^}]*\}|[^{]*\}[^{]*', from index i.
\* First alternative: a "{" not preceded by "{", up to the first "}" after
\* it.  Second alternative: a stretch without "{" that holds a "}", which
\* runs up to the next "{" or the end of the text.
RECURSIVE InvalidFrom(_, _)
InvalidFrom(t, i) ==
    IF i > Len(t) THEN {}
    ELSE LET closes == {j \in (i + 1)..Len(t) : t[j] = CLOSE}
             opens  == {k \in i..Len(t) : t[k] = OPEN}
             stop   == IF opens = {} THEN Len(t) + 1
                       ELSE CHOOSE k \in opens : \A d \in opens : k <= d
         IN  IF t[i] = OPEN /\ (i = 1 \/ t[i - 1] # OPEN) /\ closes # {}
             THEN LET j == CHOOSE c \in closes : \A d \in closes : c <= d
                  IN  {SubSeq(t, i, j)} \cup InvalidFrom(t, j + 1)
             ELSE IF \E m \in i..(stop - 1) : t[m] = CLOSE
                  THEN {SubSeq(t, i, stop - 1)} \cup InvalidFrom(t, stop)
                  ELSE InvalidFrom(t, i + 1)

\* check_text(text): the strings one paragraph adds to invalid_strings.
check_text(t) == InvalidFrom(t, 1)

\* The paragraphs the loop "for table in doc.tables: for row in table.rows:
\* for cell in row.cells: for paragraph in cell.paragraphs" reaches:
\* doc.tables lists the top-level tables only and cell.paragraphs the
\* paragraphs directly in the cell, so a table inside a cell is not entered.
table_paragraphs(tables) ==
    Flatten([t \in 1..Len(tables) |->
        Flatten([r \in 1..Len(tables[t]) |->
            Flatten([c \in 1..Len(tables[t][r]) |-> tables[t][r][c].paragraphs])])])

\* The paragraphs "for section in doc.sections" reaches: each section's
\* header paragraphs, then its footer paragraphs.
section_paragraphs(sections) ==
    Flatten([s \in 1..Len(sections) |-> sections[s].header \o sections[s].footer])

\* The paragraphs the three loops that extract_placeholders,
\* find_invalid_braces and replace_placeholders share visit, in order.
visited_paragraphs(doc) ==
    doc.paragraphs \o table_paragraphs(doc.tables) \o section_paragraphs(doc.sections)

\* A plausible slip: the pattern is run on each run's text by itself.
extract_placeholders_per_run(doc) ==
    UNION {UNION {placeholder_findall(p[i].text) : i \in DOMAIN p} :
              p \in Range(visited_paragraphs(doc))}

\* extract_placeholders(doc)
extract_placeholders(doc) ==
    UNION {placeholder_findall(get_full_text(p)) : p \in Range(visited_paragraphs(doc))}

\* find_invalid_braces(doc)
find_invalid_braces(doc) ==
    UNION {check_text(get_full_text(p)) : p \in Range(visited_paragraphs(doc))}

\* A plausible slip: only the body paragraphs are gone through.
replace_everywhere_body_only(doc, old, new) ==
    [doc EXCEPT !.paragraphs =
        [i \in 1..Len(@) |-> replace_text_in_paragraph(@[i], old, new)]]

\* One placeholder's round of replace_placeholders (lines 117-128): one call
\* of replace_text_in_paragraph on every paragraph the loops visit.
replace_everywhere(doc, old, new) ==
    LET each(ps) == [i \in 1..Len(ps) |-> replace_text_in_paragraph(ps[i], old, new)]
    IN  [paragraphs |-> each(doc.paragraphs),
         tables |-> [t \in 1..Len(doc.tables) |->
                      [r \in 1..Len(doc.tables[t]) |->
                        [c \in 1..Len(doc.tables[t][r]) |->
                          [doc.tables[t][r][c] EXCEPT !.paragraphs = each(@)]]]],
         sections |-> [s \in 1..Len(doc.sections) |->
                        [header |-> each(doc.sections[s].header),
                         footer |-> each(doc.sections[s].footer)]]]

None == "None"

NaN == <<"NaN">>

\* str(data[column]): a text cell renders as itself, an empty cell (NaN) as
\* the three characters "nan".
StrOf(v) == IF v = NaN THEN <<"n", "a", "n">> ELSE v

\* The substitution loop of replace_placeholders over mapping.items() from
\* entry i on: entries without a column are skipped.
RECURSIVE substitute_from(_, _, _, _)
substitute_from(doc, data, map, i) ==
    IF i > Len(map) THEN doc
    ELSE substitute_from(
            IF map[i].column # None
            THEN replace_everywhere(doc, placeholder_text(map[i].placeholder),
                                    StrOf(data[map[i].column]))
            ELSE doc,
            data, map, i + 1)

\* replace_placeholders(doc, data, mapping): the document after the loop and
\* the placeholders the re-scan still finds.
replace_placeholders(doc, data, map) ==
    LET out == substitute_from(doc, data, map, 1)
    IN  [doc |-> out, unreplaced |-> extract_placeholders(out)]

Columns == {"A", "B", "C"}

mapping_keys(map) == {map[i].placeholder : i \in DOMAIN map}

\* A plausible slip: every mapped column counts as used, replaced or not.
used_columns_all_mapped(map, replaced) ==
    {map[i].column : i \in {k \in DOMAIN map : map[k].column # None}}

\* used_columns of generate_documents.
used_columns(map, replaced) ==
    {map[i].column : i \in {k \in DOMAIN map :
                               map[k].placeholder \in replaced /\ map[k].column # None}}

\* One iteration of the loop of generate_documents: the tuple appended for
\* one row (the bytes of the saved document stand as the document itself).
row_result(tmpl, map, row) ==
    LET r == replace_placeholders(tmpl, row, map)
        replaced_placeholders == mapping_keys(map) \ r.unreplaced
    IN  [doc        |-> r.doc,
         replaced   |-> replaced_placeholders,
         unreplaced |-> r.unreplaced,
         unused     |-> Columns \ used_columns(map, replaced_placeholders),
         invalid    |-> find_invalid_braces(r.doc),
         row        |-> row]

\* generate_documents(df, template, mapping)
generate_documents(df, tmpl, map) ==
    [i \in 1..Len(df) |-> row_result(tmpl, map, df[i])]

\* The orders in which a set can be iterated.
Orders(S) ==
    {o \in [1..Cardinality(S) -> S] : \A i, j \in DOMAIN o : o[i] = o[j] => i = j}

\* The dicts fuzzy_match_placeholders can return for the placeholders: every
\* placeholder gets an entry, in the iteration order of the set; the column
\* of an entry (or None, below the threshold) is decided by the normalized
\* placeholder alone, which is all that process.extractOne is given.  The
\* score of an entry is left out: replace_placeholders and
\* generate_documents never read it.
fuzzy_match_placeholders(phs) ==
    {[i \in 1..Len(o) |-> [placeholder |-> o[i], column |-> g[normalize_text(o[i])]]] :
        o \in Orders(phs),
        g \in [{normalize_text(p) : p \in phs} -> Columns \cup {None}]}

----------------------------------------------------------------------------
(* Spec: the script main() on one template and one table, run once and     *)
(* then once more on the same inputs.                                      *)

Plain == <<[text |-> <<"x">>, fmt |-> 1]>>

\* A paragraph of text t in two runs, cut in the middle ("{{" | "a}}").
TwoRuns(t) ==
    <<[text |-> Prefix(t, Len(t) \div 2), fmt |-> 1],
      [text |-> Suffix(t, Len(t) \div 2), fmt |-> 2]>>

TokA == <<"a">>

TokB == <<"b">>

\* The texts of the paragraph that is put at one of the places of a template.
PlacedTexts ==
    {<<"x">>,
     placeholder_text(TokA),
     placeholder_text(TokB),
     placeholder_text(TokA) \o placeholder_text(TokA),
     placeholder_text(TokA) \o <<"x">> \o placeholder_text(TokB),
     <<OPEN, "5", CLOSE>>,
     <<"x", OPEN>>,
     <<CLOSE, "x">>,
     <<OPEN, OPEN, "x">> \o placeholder_text(TokA)}

\* The texts of the body paragraph every template has.
BodyTexts == {<<"x">>, placeholder_text(TokA), placeholder_text(TokB)}

Places == {"body", "cell", "nested", "header", "footer"}

\* A template: a body paragraph of text t2, a table of one cell that holds a
\* paragraph and a nested table of one cell, and one section with a header
\* and a footer paragraph; the paragraph of text t1 stands at `place`.
TemplateWith(place, t1, t2) ==
    LET at(q) == IF place = q THEN <<TwoRuns(t1)>> ELSE <<Plain>>
        inner == [paragraphs |-> at("nested"), tables |-> <<>>]
        outer == [paragraphs |-> at("cell"), tables |-> << << <<inner>> >> >>]
    IN  [paragraphs |-> (IF place = "body" THEN <<TwoRuns(t1)>> ELSE <<>>)
                            \o <<TwoRuns(t2)>>,
         tables     |-> << << <<outer>> >> >>,
         sections   |-> <<[header |-> at("header"), footer |-> at("footer")]>>]

Templates ==
    {TemplateWith(place, t1, t2) : place \in Places, t1 \in PlacedTexts, t2 \in BodyTexts}

RowPool ==
    {[c \in Columns |-> CASE c = "A" -> <<"v">> [] c = "B" -> <<"w">> [] OTHER -> NaN],
     [c \in Columns |-> CASE c = "A" -> placeholder_text(TokB)
                          [] c = "B" -> <<"w">>
                          [] OTHER -> <<"v">>]}

Tables == UNION {[1..n -> RowPool] : n \in 0..MaxRows}

EmptyDoc == [paragraphs |-> <<>>, tables |-> <<>>, sections |-> <<>>]

NoText == <<"-">>

MainIdle ==
    /\ template = EmptyDoc
    /\ rows = <<>>
    /\ placeholders = {}
    /\ mapping = <<>>
    /\ documents = <<>>
    /\ previous = <<>>
    /\ restarted = FALSE

PureIdle ==
    /\ para = <<>>
    /\ para0 = <<>>
    /\ old_text = NoText
    /\ new_text = NoText
    /\ text = NoText
    /\ once = NoText
    /\ twice = NoText

InitWith(templates, tables) ==
    /\ pc = "start"
    /\ template \in templates
    /\ rows \in tables
    /\ placeholders = {}
    /\ mapping = <<>>
    /\ documents = <<>>
    /\ previous = <<>>
    /\ restarted = FALSE
    /\ PureIdle

Init == InitWith(Templates, Tables)

\* main(), line 204: placeholders = extract_placeholders(doc)
ExtractPlaceholders ==
    /\ pc = "start"
    /\ placeholders' = extract_placeholders(template)
    /\ pc' = "extracted"
    /\ UNCHANGED <<template, rows, mapping, documents, previous, restarted>>
    /\ UNCHANGED pureVars

\* main(), line 211: mapping = fuzzy_match_placeholders(placeholders, columns)
FuzzyMatch ==
    /\ pc = "extracted"
    /\ mapping' \in fuzzy_match_placeholders(placeholders)
    /\ pc' = "mapped"
    /\ UNCHANGED <<template, rows, placeholders, documents, previous, restarted>>
    /\ UNCHANGED pureVars

\* main(), line 221: documents = generate_documents(df, template_file, mapping)
GenerateDocuments ==
    /\ pc = "mapped"
    /\ documents' = generate_documents(rows, template, mapping)
    /\ pc' = "done"
    /\ UNCHANGED <<template, rows, placeholders, mapping, previous, restarted>>
    /\ UNCHANGED pureVars

\* The script is run again, in a new process, on the same two files:
\* extraction and matching give the same placeholders and the same column
\* for each, but the set of placeholders (line 21) may now iterate in
\* another order, and so may the dict built from it (lines 71-72).
Restart ==
    /\ pc = "done"
    /\ ~restarted
    /\ restarted' = TRUE
    /\ previous' = documents
    /\ documents' = <<>>
    /\ \E m \in fuzzy_match_placeholders(placeholders) :
          /\ \A i \in DOMAIN m : \E j \in DOMAIN mapping : m[i] = mapping[j]
          /\ mapping' = m
    /\ pc' = "mapped"
    /\ UNCHANGED <<template, rows, placeholders>>
    /\ UNCHANGED pureVars

Next == ExtractPlaceholders \/ FuzzyMatch \/ GenerateDocuments \/ Restart

Spec == Init /\ [][Next]_vars

----------------------------------------------------------------------------
(* SpecSpan: the same script on templates of body paragraphs only, made of *)
(* one text cut into runs at every possible place, the runs then left in   *)
(* one paragraph or dealt to two consecutive paragraphs.                   *)

SpanTexts ==
    {placeholder_text(TokA),
     <<"x">> \o placeholder_text(TokA) \o <<"x">>,
     placeholder_text(TokA) \o placeholder_text(TokA)}

\* The body paragraphs made of the runs rs: all in one paragraph (b = 0), or
\* the first b runs in one paragraph and the rest in the next.
Dealt(rs, b) ==
    IF b = 0 THEN <<rs>>
    ELSE <<SubSeq(rs, 1, b),
           [i \in 1..(Len(rs) - b) |-> [rs[b + i] EXCEPT !.fmt = i]]>>

SpanTemplates ==
    UNION {{[paragraphs |-> Dealt(rs, b), tables |-> <<>>, sections |-> <<>>] :
                b \in 0..(Len(rs) - 1)} :
           rs \in UNION {Splits(t, MaxSpans) : t \in SpanTexts}}

SpanTables == {<<r>> : r \in RowPool}

InitSpan == InitWith(SpanTemplates, SpanTables)

SpecSpan == InitSpan /\ [][Next]_vars

----------------------------------------------------------------------------
(* SpecSplice: one call of replace_text_in_paragraph on arbitrary inputs.  *)

SpliceAlphabet == {"a", "b"}

SpliceTargets ==
    {<<>>, <<"a">>, <<"b">>, <<"a", "b">>, <<"a", "a">>, <<"b", "a", "b">>}

SpliceReplacements == {<<>>, <<"b">>, <<"a", "b", "a">>}

InitSplice ==
    /\ pc = "ready"
    /\ \E t \in TextsUpTo(SpliceAlphabet, MaxLen) :
          para \in Splits(t, MaxSpans) \cup (IF t = <<>> THEN {<<>>} ELSE {})
    /\ para0 = <<>>
    /\ old_text = NoText
    /\ new_text = NoText
    /\ text = NoText
    /\ once = NoText
    /\ twice = NoText
    /\ MainIdle

ReplaceCall ==
    /\ pc = "ready"
    /\ \E old \in SpliceTargets, new \in SpliceReplacements :
          /\ old_text' = old
          /\ new_text' = new
          /\ para' = replace_text_in_paragraph(para, old, new)
    /\ para0' = para
    /\ pc' = "done"
    /\ UNCHANGED <<text, once, twice>>
    /\ UNCHANGED mainVars

NextSplice == ReplaceCall

SpecSplice == InitSplice /\ [][NextSplice]_vars

----------------------------------------------------------------------------
(* SpecNorm: normalize_text applied once and twice.                        *)

InitNorm ==
    /\ pc = "ready"
    /\ text \in TextsUpTo(NormAlphabet, MaxNormLen)
    /\ once = NoText
    /\ twice = NoText
    /\ para = <<>>
    /\ para0 = <<>>
    /\ old_text = NoText
    /\ new_text = NoText
    /\ MainIdle

Normalize ==
    /\ pc = "ready"
    /\ once' = normalize_text(text)
    /\ twice' = normalize_text(normalize_text(text))
    /\ pc' = "done"
    /\ UNCHANGED <<text, para, para0, old_text, new_text>>
    /\ UNCHANGED mainVars

NextNorm == Normalize

SpecNorm == InitNorm /\ [][NextNorm]_vars

----------------------------------------------------------------------------
(* Claims about replace_text_in_paragraph (SpecSplice).                    *)

\* The half-open range of run i of the paragraph before the call overlaps
\* the match [matchStart, matchEnd).
OverlapsMatch(i) ==
    LET matchStart == Find(old_text, get_full_text(para0))
        matchEnd   == matchStart + Len(old_text)
        run_start  == RunStart(para0, i)
        run_end    == run_start + Len(para0[i].text)
    IN  run_start < matchEnd /\ run_end > matchStart

\* The effect the claim states for a call whose target occurs in the text:
\* the text becomes A + R + B around the first occurrence, the runs keep
\* their number, order and identity, and the runs off the match their text.
SplicedAsClaimed ==
    LET full0 == get_full_text(para0)
        matchStart == Find(old_text, full0)
        matchEnd   == matchStart + Len(old_text)
    IN  /\ get_full_text(para) =
              Prefix(full0, matchStart) \o new_text \o Suffix(full0, matchEnd)
        /\ Len(para) = Len(para0)
        /\ \A i \in 1..Len(para0) :
              /\ para[i].fmt = para0[i].fmt
              /\ ~OverlapsMatch(i) => para[i].text = para0[i].text

\* C1 as stated: for ANY target occurring in the text (the empty target,
\* which occurs at offset 0 of every text, included) the call yields
\* A + R + B with the runs otherwise untouched, and an absent target leaves
\* the paragraph as it was.
C1_AsStated ==
    pc = "done" =>
        IF Contains(old_text, get_full_text(para0))
        THEN SplicedAsClaimed
        ELSE para = para0

\* C1 amended: for every NON-EMPTY target occurring in the concatenated text
\* the call turns the text into A + R + B around the first occurrence and
\* keeps the number, order and identity of the runs and the text of every
\* run that does not overlap the match; when the target is absent or empty
\* every run is left identical.
C1_Splice ==
    pc = "done" =>
        IF old_text # <<>> /\ Contains(old_text, get_full_text(para0))
        THEN SplicedAsClaimed
        ELSE para = para0

\* C1 witness: a call whose match starts inside one run, ends inside a later
\* one and swallows an empty run in between, with a non-empty replacement.
C1_Witness ==
    /\ pc = "done"
    /\ new_text # <<>>
    /\ Len(old_text) >= 2
    /\ Contains(old_text, get_full_text(para0))
    /\ Find(old_text, get_full_text(para0)) > 0
    /\ \E i \in 1..Len(para0) :
          /\ para0[i].text = <<>>
          /\ OverlapsMatch(i)
    /\ \E i, j \in 1..Len(para0) :
          /\ i < j
          /\ OverlapsMatch(i) /\ OverlapsMatch(j)
          /\ para[i].text # <<>> /\ para[j].text # <<>>
          /\ para[j].text # para0[j].text

----------------------------------------------------------------------------
(* Claims about the substitution pass and its diagnostics (Spec).          *)

HasBrace(t) == \E i \in DOMAIN t : t[i] \in {OPEN, CLOSE}

\* No value of the row renders with a brace in it.
RowBraceFree(row) == \A c \in Columns : ~HasBrace(StrOf(row[c]))

\* The number of offsets at which sub occurs in s.
Occurrences(sub, s) == Cardinality({k \in 0..Len(s) : OccursAt(sub, s, k)})

\* The text of every paragraph the code visits in doc.
VisitedTexts(doc) == {get_full_text(p) : p \in Range(visited_paragraphs(doc))}

\* Every TextContainer of the document tree: body paragraphs, the paragraphs
\* of every cell of every table at any depth, headers and footers.
RECURSIVE deep_table_paragraphs(_)
deep_table_paragraphs(tables) ==
    Flatten([t \in 1..Len(tables) |->
        Flatten([r \in 1..Len(tables[t]) |->
            Flatten([c \in 1..Len(tables[t][r]) |->
                tables[t][r][c].paragraphs
                    \o deep_table_paragraphs(tables[t][r][c].tables)])])])

AllTexts(doc) ==
    {get_full_text(p) :
        p \in Range(doc.paragraphs \o deep_table_paragraphs(doc.tables)
                        \o section_paragraphs(doc.sections))}

MappedTokens == {mapping[k].placeholder : k \in {j \in DOMAIN mapping : mapping[j].column # None}}

UnmappedTokens == {mapping[k].placeholder : k \in {j \in DOMAIN mapping : mapping[j].column = None}}

\* C2 as stated: after the pass of a row whose values hold no brace, no
\* marker of a token mapped to a field is left in any container the pass
\* goes through, however often the marker occurred in one container, and
\* the token is not reported as unreplaced.
C2_AsStated ==
    pc = "done" =>
        \A i \in DOMAIN documents :
            RowBraceFree(documents[i].row) =>
                \A tok \in MappedTokens :
                    /\ tok \notin documents[i].unreplaced
                    /\ \A t \in VisitedTexts(documents[i].doc) :
                          ~Contains(placeholder_text(tok), t)

\* C3 as stated: when the value substituted for a mapped token A holds the
\* marker of another token X of the mapping, that marker stays in the
\* output as literal text and X is reported as unreplaced, whatever the
\* order of the mapping.
C3_AsStated ==
    pc = "done" =>
        \A i \in DOMAIN documents : \A k \in DOMAIN mapping :
            \A X \in mapping_keys(mapping) \ {mapping[k].placeholder} :
                ( /\ mapping[k].column # None
                  /\ \E t \in VisitedTexts(template) :
                        Contains(placeholder_text(mapping[k].placeholder), t)
                  /\ Contains(placeholder_text(X),
                              StrOf(documents[i].row[mapping[k].column])) )
                =>
                ( /\ X \in documents[i].unreplaced
                  /\ \E t \in VisitedTexts(documents[i].doc) :
                        Contains(placeholder_text(X), t) )

\* C4 as stated: extraction visits every container of the document, the
\* cells of tables nested in table cells included, so every token of every
\* container is among the extracted placeholders.
C4_AsStated ==
    pc = "extracted" =>
        \A t \in AllTexts(template) : placeholder_findall(t) \subseteq placeholders

\* The case C5 is about: a row without braces in its values, and every
\* token's marker at most once in each container of the template.
C5_Case(i) ==
    /\ RowBraceFree(rows[i])
    /\ \A tok \in mapping_keys(mapping) : \A t \in VisitedTexts(template) :
          Occurrences(placeholder_text(tok), t) <= 1

C5_Coverage(i) ==
    /\ documents[i].replaced = MappedTokens
    /\ documents[i].unreplaced = UnmappedTokens
    /\ documents[i].replaced \cap documents[i].unreplaced = {}
    /\ documents[i].replaced \cup documents[i].unreplaced = mapping_keys(mapping)
    /\ \A tok \in UnmappedTokens :
          \E t \in VisitedTexts(documents[i].doc) : Contains(placeholder_text(tok), t)

\* C5 as stated: in that case the replaced tokens are exactly the tokens
\* with a field, the unreplaced ones exactly those without, and the marker
\* of a token without a field is still in the document.
C5_AsStated ==
    pc = "done" =>
        /\ Len(documents) = Len(rows)
        /\ \A i \in DOMAIN documents : C5_Case(i) => C5_Coverage(i)

\* C5 amended: the same, for templates none of whose token names holds a
\* brace character (so that no marker lies inside another token's marker).
C5_TokenCoverage ==
    pc = "done" =>
        /\ Len(documents) = Len(rows)
        /\ \A i \in DOMAIN documents :
              (C5_Case(i) /\ \A tok \in mapping_keys(mapping) : ~HasBrace(tok))
                  => C5_Coverage(i)

\* C5 witness: a row of the case with one token replaced by its field's
\* value and another, without a field, left in the document and reported.
C5_Witness ==
    /\ pc = "done"
    /\ \E i \in DOMAIN documents :
          /\ C5_Case(i)
          /\ \A tok \in mapping_keys(mapping) : ~HasBrace(tok)
          /\ documents[i].replaced = {TokA}
          /\ documents[i].unreplaced = {TokB}
          /\ documents[i].doc # template

\* The text left when every well-formed token "{{name}}" (a match of the
\* placeholder pattern) is taken out of t, from index i on.
RECURSIVE WithoutTokensFrom(_, _)
WithoutTokensFrom(t, i) ==
    IF i > Len(t) THEN <<>>
    ELSE LET closes == {j \in (i + 3)..(Len(t) - 1) : t[j] = CLOSE /\ t[j + 1] = CLOSE}
         IN  IF /\ i + 1 <= Len(t)
                /\ t[i] = OPEN
                /\ t[i + 1] = OPEN
                /\ closes # {}
             THEN WithoutTokensFrom(t, (CHOOSE c \in closes : \A d \in closes : c <= d) + 2)
             ELSE <<t[i]>> \o WithoutTokensFrom(t, i + 1)

\* A "{" or "}" of t that is not part of a balanced double-brace pair.
StrayBrace(t) == HasBrace(WithoutTokensFrom(t, 1))

\* C6 as stated: after substitution a container contributes strings to
\* malformedBraceStrings exactly when its text has a brace outside every
\* well-formed token; what it contributes is in the row's report.
C6_AsStated ==
    pc = "done" =>
        \A i \in DOMAIN documents : \A t \in VisitedTexts(documents[i].doc) :
            /\ check_text(t) \subseteq documents[i].invalid
            /\ (check_text(t) # {}) <=> StrayBrace(t)

\* C8: for every row a field is reported unused exactly when no replaced
\* token is mapped to it, and the unused fields are fields of the table.
C8_UnusedFields ==
    pc = "done" =>
        \A i \in DOMAIN documents :
            /\ documents[i].unused \subseteq Columns
            /\ \A c \in Columns :
                  c \in documents[i].unused <=>
                      ~\E k \in DOMAIN mapping :
                          /\ mapping[k].placeholder \in documents[i].replaced
                          /\ mapping[k].column = c

\* C8 witness: a row with token a replaced from field A, token b mapped to
\* field B but still reported unreplaced, and fields B and C unused.
C8_Witness ==
    /\ pc = "done"
    /\ \E i \in DOMAIN documents :
          /\ documents[i].replaced = {TokA}
          /\ documents[i].unused = {"B", "C"}
          /\ \E k \in DOMAIN mapping :
                mapping[k].placeholder = TokB /\ mapping[k].column = "B"

\* C9 as stated: a second run on the same rows, template and token -> field
\* mapping returns the same list of results, whatever the order in which the
\* mapping's tokens are processed.
C9_AsStated ==
    (pc = "done" /\ restarted) => documents = previous

----------------------------------------------------------------------------
(* Claims about tokens cut by run and paragraph boundaries (SpecSpan).     *)

\* The document with the runs of every body paragraph merged into one run.
Unsplit(doc) ==
    [doc EXCEPT !.paragraphs =
        [j \in DOMAIN @ |-> <<[text |-> get_full_text(@[j]), fmt |-> 1]>>]]

\* The runs of paragraph p that hold a character of the first occurrence of
\* sub in the paragraph's text.
RunsOfMatch(p, sub) ==
    LET s == Find(sub, get_full_text(p))
    IN  {i \in DOMAIN p :
            /\ p[i].text # <<>>
            /\ RunStart(p, i) < s + Len(sub)
            /\ RunStart(p, i) + Len(p[i].text) > s}

----------------------------------------------------------------------------
(* Claim about normalize_text (SpecNorm).                                  *)

\* C10 as stated: normalizing a normalized string changes nothing, for
\* every string, those with a character whose lower-case form holds a
\* non-alphanumeric character included.
C10_AsStated ==
    pc = "done" => twice = once

=============================================================================
